---- MODULE Spec2Model ----
(***************************************************************************)
(* Single-market trade simulation of PolyQuant/backtest_advanced.py        *)
(* (simulate_market): entry, DCA, dynamic hedge, time-aware exit and the   *)
(* final accounting, as a state machine with one step per row of the       *)
(* joined Yes/No price series.                                             *)
(*                                                                         *)
(* Money is exact: every amount is an integer number of micro-dollars      *)
(* (One = 1.0 dollar).  Quoted mids are whole cents and slippage_bps is a  *)
(* whole number of basis points, so price * (1 + slippage_bps/10000) is an *)
(* integer number of micro-dollars.  A PnL is units - frac/BPS             *)
(* micro-dollars, so a fee of fee_bps/10000 of the total cost is exact as  *)
(* well.  The source computes in binary floating point; its rounding is    *)
(* not modelled.  Time is in whole minutes.                                *)
(***************************************************************************)
EXTENDS Integers, Sequences, FiniteSets, TLC

\* ---------------------------------------------------------------- units
\* 1.0 (the payout of one complete Yes/No pair), in micro-dollars
One == 1000000
\* the divisor of slippage_bps and fee_bps
BPS == 10000
\* the clamp of a fill price: 0.0001 and 0.9999, in micro-dollars
MinFill == 100
MaxFill == 999900
\* one cent, in micro-dollars
Cent == One \div 100

\* --------------------------------------------------------------- bounds
\* rows of the joined series that one run reads at most
MaxRows == 4

\* --------------------------------------------------------------- inputs
\* quoted mids of a row, in cents
Prices == {10, 20, 34, 64, 90}
\* minutes between two consecutive rows of the series
Gaps == {1}
\* the market's end, in minutes after the start of the fetched window
MarketEnds == {6}

EntryThresholds == {35 * Cent}
DcaLevelChoices == {<<25 * Cent, 15 * Cent, 15 * Cent>>}
DcaCutoffs == {2}
\* 0.01 dollar (the default) and 20 dollars
ProfitBuffers == {One \div 100, 20 * One}
Sizes == {100}
ForceUnwindMinutes == {2}
SlippageChoices == {0, 10}
FeeChoices == {0, 300}

Configs ==
    [entry_threshold : EntryThresholds,
     dca_levels : DcaLevelChoices,
     dca_time_cutoff_minutes : DcaCutoffs,
     profit_buffer : ProfitBuffers,
     size_per_leg : Sizes,
     force_unwind_minutes : ForceUnwindMinutes,
     slippage_bps : SlippageChoices,
     fee_bps : FeeChoices]

VARIABLES
    cfg,                \* the Config of the run
    market_end,         \* market["epoch"] + 15 minutes, in minutes
    pc,                 \* "loop" | "final" (left the loop by break) | "done"
    nrows,              \* rows of df read so far
    ts, yes_p, no_p,    \* the row being processed (df.iloc[-1] once exhausted)
    minutes_left,       \* local of the loop body
    pnl, add_yes, add_no, \* locals of the exit stage (calc_profit_if_unwind)
    shares_yes, shares_no, cost_yes, cost_no,
    entry_side, entry_time, entered, unwinded, forced, hedged,
    dca_count, max_gross_exposure, dca_used_yes, dca_used_no,
    below_seen,         \* history: some row read had a price <= entry_threshold
    result,             \* the TradeResult returned, NoResult before
    tokens,             \* market["tokens"]
    api,                \* the CLOB's answer to a prices-history request, per token id
    tok_map, yes, no,   \* locals of simulate_market before the loop
    df,                 \* the joined series (index in minutes -> yes, no)
    buy_price, buy_p,   \* argument and local p of a call of buy
    series,             \* a batch of markets: the joined series of each
    sims,               \* a batch of markets: the locals of each simulate_market call
    attempt,            \* _request_with_retry: the loop variable
    responses,          \* _request_with_retry: what each HTTP attempt met, oldest first
    sleeps,             \* _request_with_retry: the time.sleep calls, in milliseconds
    outcome,            \* _request_with_retry: what the call returned or raised
    candidates,         \* select_best_market: its argument
    best                \* select_best_market: its return value

rowVars == <<nrows, ts, yes_p, no_p, minutes_left, pnl, add_yes, add_no, below_seen>>
posVars == <<shares_yes, shares_no, cost_yes, cost_no, entry_side, entry_time,
             entered, unwinded, forced, hedged, dca_count, max_gross_exposure,
             dca_used_yes, dca_used_no>>
fetchVars == <<tokens, api, tok_map, yes, no, df>>
buyVars == <<buy_price, buy_p>>
batchVars == <<series, sims>>
clientVars == <<attempt, responses, sleeps, outcome>>
selectVars == <<candidates, best>>
vars == <<cfg, market_end, pc, rowVars, posVars, result, fetchVars, buyVars, batchVars,
          clientVars, selectVars>>

None == "none"
NoResult == [entered |-> None]

Max(a, b) == IF a >= b THEN a ELSE b
Min(a, b) == IF a <= b THEN a ELSE b

\* ------------------------------------------------- execution & cost model
\* buy(price): the fill price of a buy at quoted mid `price`
buyAtMid(c, price) == Min(Max(price, MinFill), MaxFill)
buyNoClamp(c, price) ==
    (price \div BPS) * (BPS + c.slippage_bps)
      + ((price % BPS) * (BPS + c.slippage_bps)) \div BPS
buy(c, price) ==
    LET p == (price \div BPS) * (BPS + c.slippage_bps)
             + ((price % BPS) * (BPS + c.slippage_bps)) \div BPS
    IN  Min(Max(p, MinFill), MaxFill)

\* total_cost * fee_mult, as whole micro-dollars plus frac/BPS of one
FeeWhole(c, total_cost) ==
    (total_cost \div BPS) * c.fee_bps + ((total_cost % BPS) * c.fee_bps) \div BPS
FeeFrac(c, total_cost) == ((total_cost % BPS) * c.fee_bps) % BPS

\* locked_payout - total_cost - fees, the value units - frac/BPS
PnlOf(c, locked_payout, total_cost) ==
    [units |-> locked_payout - total_cost - FeeWhole(c, total_cost),
     frac |-> FeeFrac(c, total_cost)]

\* p >= b and p < b for a PnL p and a whole number b of micro-dollars
PnlGE(p, b) == p.units > b \/ (p.units = b /\ p.frac = 0)
PnlLT(p, b) == ~PnlGE(p, b)
ZeroPnl == [units |-> 0, frac |-> 0]

\* ------------------------------------------------------------ the position
Pos ==
    [shares_yes |-> shares_yes, shares_no |-> shares_no,
     cost_yes |-> cost_yes, cost_no |-> cost_no,
     entry_side |-> entry_side, entry_time |-> entry_time,
     entered |-> entered, unwinded |-> unwinded, forced |-> forced,
     hedged |-> hedged, dca_count |-> dca_count,
     max_gross_exposure |-> max_gross_exposure,
     dca_used_yes |-> dca_used_yes, dca_used_no |-> dca_used_no]

SetPos(s) ==
    /\ shares_yes' = s.shares_yes /\ shares_no' = s.shares_no
    /\ cost_yes' = s.cost_yes /\ cost_no' = s.cost_no
    /\ entry_side' = s.entry_side /\ entry_time' = s.entry_time
    /\ entered' = s.entered /\ unwinded' = s.unwinded /\ forced' = s.forced
    /\ hedged' = s.hedged /\ dca_count' = s.dca_count
    /\ max_gross_exposure' = s.max_gross_exposure
    /\ dca_used_yes' = s.dca_used_yes /\ dca_used_no' = s.dca_used_no

\* gross = yes_p*shares_yes + no_p*shares_no; the running maximum
GrossStage(s, y, n) ==
    [s EXCEPT !.max_gross_exposure = Max(@, y * s.shares_yes + n * s.shares_no)]

\* calc_profit_if_unwind()
CalcProfitIfUnwind(c, s, y, n) ==
    LET target == Max(s.shares_yes, s.shares_no)
        a_yes == target - s.shares_yes
        a_no == target - s.shares_no
        total_cost == s.cost_yes + s.cost_no + a_yes * buy(c, y) + a_no * buy(c, n)
    IN  [pnl |-> PnlOf(c, target * One, total_cost), total_cost |-> total_cost,
         add_yes |-> a_yes, add_no |-> a_no]

\* the entry condition of a row
EntryConditionComplement(c, y, n) == y <= c.entry_threshold \/ n <= One - c.entry_threshold
EntryCondition(c, y, n) == y <= c.entry_threshold \/ n <= c.entry_threshold

\* Entry logic (the body of `if not entered`, before its `continue`)
EntryStageTieNo(c, s, t, y, n) ==
    IF EntryCondition(c, y, n)
    THEN IF y < n
         THEN [s EXCEPT !.entered = TRUE, !.entry_time = t, !.entry_side = "yes",
                        !.shares_yes = @ + c.size_per_leg,
                        !.cost_yes = @ + c.size_per_leg * buy(c, y)]
         ELSE [s EXCEPT !.entered = TRUE, !.entry_time = t, !.entry_side = "no",
                        !.shares_no = @ + c.size_per_leg,
                        !.cost_no = @ + c.size_per_leg * buy(c, n)]
    ELSE s
EntryStage(c, s, t, y, n) ==
    IF EntryCondition(c, y, n)
    THEN IF y <= n
         THEN [s EXCEPT !.entered = TRUE, !.entry_time = t, !.entry_side = "yes",
                        !.shares_yes = @ + c.size_per_leg,
                        !.cost_yes = @ + c.size_per_leg * buy(c, y)]
         ELSE [s EXCEPT !.entered = TRUE, !.entry_time = t, !.entry_side = "no",
                        !.shares_no = @ + c.size_per_leg,
                        !.cost_no = @ + c.size_per_leg * buy(c, n)]
    ELSE s

\* whether a level of dca_levels fills at `price`, given the used set
DcaLevelFiresAgain(lvl, price, used) == price <= lvl
DcaLevelFires(lvl, price, used) == price <= lvl /\ lvl \notin used

\* `for lvl in cfg.dca_levels` on the Yes side, from index i on
RECURSIVE DcaYes(_, _, _, _)
DcaYes(c, s, y, i) ==
    IF i > Len(c.dca_levels) THEN s
    ELSE LET lvl == c.dca_levels[i]
         IN  IF DcaLevelFires(lvl, y, s.dca_used_yes)
             THEN DcaYes(c, [s EXCEPT !.dca_used_yes = @ \cup {lvl},
                                      !.shares_yes = @ + c.size_per_leg,
                                      !.cost_yes = @ + c.size_per_leg * buy(c, y),
                                      !.dca_count = @ + 1], y, i + 1)
             ELSE DcaYes(c, s, y, i + 1)

\* `for lvl in cfg.dca_levels` on the No side, from index i on
RECURSIVE DcaNo(_, _, _, _)
DcaNo(c, s, n, i) ==
    IF i > Len(c.dca_levels) THEN s
    ELSE LET lvl == c.dca_levels[i]
         IN  IF DcaLevelFires(lvl, n, s.dca_used_no)
             THEN DcaNo(c, [s EXCEPT !.dca_used_no = @ \cup {lvl},
                                     !.shares_no = @ + c.size_per_leg,
                                     !.cost_no = @ + c.size_per_leg * buy(c, n),
                                     !.dca_count = @ + 1], n, i + 1)
             ELSE DcaNo(c, s, n, i + 1)

\* DCA logic with time cutoff
DcaStageNoCutoff(c, s, t, y, n) ==
    IF s.entry_side = "yes" THEN DcaYes(c, s, y, 1)
    ELSE IF s.entry_side = "no" THEN DcaNo(c, s, n, 1)
    ELSE s
DcaStage(c, s, t, y, n) ==
    LET minutes_since_entry == t - s.entry_time
    IN  IF minutes_since_entry <= c.dca_time_cutoff_minutes
        THEN IF s.entry_side = "yes" THEN DcaYes(c, s, y, 1)
             ELSE IF s.entry_side = "no" THEN DcaNo(c, s, n, 1)
             ELSE s
        ELSE s

\* avg_cost + buy(opposite) < 1.0, with avg_cost = cost / shares (shares > 0)
HedgeProfitableOrEqual(c, cost, shares, opp_p) ==
    cost + shares * buy(c, opp_p) <= shares * One
HedgeProfitable(c, cost, shares, opp_p) ==
    cost + shares * buy(c, opp_p) < shares * One

\* Dynamic hedging based on average cost
HedgeStageNever(c, s, y, n) == s
HedgeStageDouble(c, s, y, n) ==
    IF ~s.hedged /\ s.entry_side = "yes" /\ s.shares_no = 0
         /\ HedgeProfitable(c, s.cost_yes, s.shares_yes, n)
    THEN [s EXCEPT !.shares_no = @ + 2 * s.shares_yes,
                   !.cost_no = @ + 2 * s.shares_yes * buy(c, n),
                   !.hedged = TRUE]
    ELSE IF ~s.hedged /\ s.entry_side = "no" /\ s.shares_yes = 0
              /\ HedgeProfitable(c, s.cost_no, s.shares_no, y)
    THEN [s EXCEPT !.shares_yes = @ + 2 * s.shares_no,
                   !.cost_yes = @ + 2 * s.shares_no * buy(c, y),
                   !.hedged = TRUE]
    ELSE s
HedgeStageOneLot(c, s, y, n) ==
    IF ~s.hedged
    THEN IF s.entry_side = "yes" /\ s.shares_no = 0
         THEN IF HedgeProfitable(c, s.cost_yes, s.shares_yes, n)
              THEN [s EXCEPT !.shares_no = @ + c.size_per_leg,
                             !.cost_no = @ + c.size_per_leg * buy(c, n),
                             !.hedged = TRUE]
              ELSE s
         ELSE IF s.entry_side = "no" /\ s.shares_yes = 0
         THEN IF HedgeProfitable(c, s.cost_no, s.shares_no, y)
              THEN [s EXCEPT !.shares_yes = @ + c.size_per_leg,
                             !.cost_yes = @ + c.size_per_leg * buy(c, y),
                             !.hedged = TRUE]
              ELSE s
         ELSE s
    ELSE s
HedgeStageRetrigger(c, s, y, n) ==
    IF s.entry_side = "yes" /\ s.shares_no < s.shares_yes
    THEN IF HedgeProfitable(c, s.cost_yes, s.shares_yes, n)
         THEN [s EXCEPT !.shares_no = s.shares_yes,
                        !.cost_no = @ + (s.shares_yes - s.shares_no) * buy(c, n),
                        !.hedged = TRUE]
         ELSE s
    ELSE IF s.entry_side = "no" /\ s.shares_yes < s.shares_no
    THEN IF HedgeProfitable(c, s.cost_no, s.shares_no, y)
         THEN [s EXCEPT !.shares_yes = s.shares_no,
                        !.cost_yes = @ + (s.shares_no - s.shares_yes) * buy(c, y),
                        !.hedged = TRUE]
         ELSE s
    ELSE s
HedgeStage(c, s, y, n) ==
    IF ~s.hedged
    THEN IF s.entry_side = "yes" /\ s.shares_no = 0
         THEN IF HedgeProfitable(c, s.cost_yes, s.shares_yes, n)
              THEN [s EXCEPT !.shares_no = @ + s.shares_yes,
                             !.cost_no = @ + s.shares_yes * buy(c, n),
                             !.hedged = TRUE]
              ELSE s
         ELSE IF s.entry_side = "no" /\ s.shares_yes = 0
         THEN IF HedgeProfitable(c, s.cost_no, s.shares_no, y)
              THEN [s EXCEPT !.shares_yes = @ + s.shares_no,
                             !.cost_yes = @ + s.shares_no * buy(c, y),
                             !.hedged = TRUE]
              ELSE s
         ELSE s
    ELSE s

\* the shortfall purchase of an unwind
CompleteSetYesOnly(c, s, y, n, a_yes, a_no) ==
    IF a_yes > 0
    THEN [s EXCEPT !.cost_yes = @ + a_yes * buy(c, y), !.shares_yes = @ + a_yes]
    ELSE s
CompleteSet(c, s, y, n, a_yes, a_no) ==
    LET s1 == IF a_yes > 0
              THEN [s EXCEPT !.cost_yes = @ + a_yes * buy(c, y), !.shares_yes = @ + a_yes]
              ELSE s
    IN  IF a_no > 0
        THEN [s1 EXCEPT !.cost_no = @ + a_no * buy(c, n), !.shares_no = @ + a_no]
        ELSE s1

\* whether the exit stage unwinds, and whether that unwind is forced
UnwindNowAtSmallLoss(c, p, mleft) == PnlGE(p, 0 - One)
UnwindNowNoBuffer(c, p, mleft) == PnlGE(p, 0)
UnwindNowAlwaysBuffer(c, p, mleft) == PnlGE(p, c.profit_buffer)
UnwindNow(c, p, mleft) ==
    IF mleft > c.force_unwind_minutes THEN PnlGE(p, c.profit_buffer) ELSE PnlGE(p, 0)
UnwindForcedAlways(c, mleft) == TRUE
UnwindForced(c, mleft) == ~(mleft > c.force_unwind_minutes)

\* TIME-AWARE EXIT/UNWIND LOGIC; the result's `brk` says the loop breaks
ExitStage(c, s, y, n, mleft) ==
    LET h == CalcProfitIfUnwind(c, s, y, n)
    IN  IF UnwindNow(c, h.pnl, mleft)
        THEN [pos |-> [CompleteSet(c, s, y, n, h.add_yes, h.add_no)
                         EXCEPT !.unwinded = TRUE,
                                !.forced = IF UnwindForced(c, mleft) THEN TRUE ELSE @],
              brk |-> TRUE, h |-> h]
        ELSE [pos |-> s, brk |-> FALSE, h |-> h]

\* where control goes after a row: `break` leaves the loop
AfterRowNoBreak(brk) == "loop"
AfterRow(brk) == IF brk THEN "final" ELSE "loop"

\* one iteration of `for ts, row in df.iterrows()`
LoopBodyNoContinue(c, s, t, y, n, mleft) ==
    LET s0 == GrossStage(s, y, n)
        sE == IF ~s0.entered THEN EntryStage(c, s0, t, y, n) ELSE s0
    IN  IF ~sE.entered
        THEN [pos |-> sE, brk |-> FALSE, post |-> FALSE]
        ELSE LET s1 == DcaStage(c, sE, t, y, n)
                 s2 == HedgeStage(c, s1, y, n)
                 e == ExitStage(c, s2, y, n, mleft)
             IN  [pos |-> e.pos, brk |-> e.brk, h |-> e.h, post |-> TRUE]
LoopBody(c, s, t, y, n, mleft) ==
    LET s0 == GrossStage(s, y, n)
    IN  IF ~s0.entered
        THEN [pos |-> EntryStage(c, s0, t, y, n), brk |-> FALSE, post |-> FALSE]
        ELSE LET s1 == DcaStage(c, s0, t, y, n)
                 s2 == HedgeStage(c, s1, y, n)
                 e == ExitStage(c, s2, y, n, mleft)
             IN  [pos |-> e.pos, brk |-> e.brk, h |-> e.h, post |-> TRUE]

\* Final accounting, up to the TradeResult
FinalStageAlwaysComplete(c, s, y, n) ==
    IF (s.shares_yes > 0 \/ s.shares_no > 0) /\ ~s.unwinded
    THEN LET h == CalcProfitIfUnwind(c, s, y, n)
         IN  [CompleteSet(c, s, y, n, h.add_yes, h.add_no)
                EXCEPT !.unwinded = TRUE, !.forced = TRUE]
    ELSE s
FinalStage(c, s, y, n) ==
    IF (s.shares_yes > 0 \/ s.shares_no > 0) /\ ~s.unwinded
    THEN LET h == CalcProfitIfUnwind(c, s, y, n)
         IN  IF PnlGE(h.pnl, 0)
             THEN [CompleteSet(c, s, y, n, h.add_yes, h.add_no)
                     EXCEPT !.unwinded = TRUE, !.forced = TRUE]
             ELSE [s EXCEPT !.forced = TRUE]
    ELSE s

\* locked_payout of the result
LockedPayoutAlways(s) == Max(s.shares_yes, s.shares_no) * One
LockedPayout(s) == IF s.unwinded THEN Max(s.shares_yes, s.shares_no) * One ELSE 0

TradeResult(c, s) ==
    LET total_cost == s.cost_yes + s.cost_no
        locked_payout == LockedPayout(s)
    IN  [entered |-> s.entered, unwinded |-> s.unwinded, forced |-> s.forced,
         entry_side |-> s.entry_side,
         shares_yes |-> s.shares_yes, shares_no |-> s.shares_no,
         total_cost |-> total_cost, locked_payout |-> locked_payout,
         pnl |-> PnlOf(c, locked_payout, total_cost),
         max_gross_exposure |-> s.max_gross_exposure,
         hedged |-> s.hedged, dca_count |-> s.dca_count]

\* ------------------------------------------------------------------ actions
\* an empty DataFrame; also the value of a local not yet assigned
Empty == <<>>
\* the locals of simulate_market as lines 212-229 set them
Fresh ==
    /\ nrows = 0 /\ ts = 0 /\ yes_p = 0 /\ no_p = 0 /\ minutes_left = market_end
    /\ pnl = ZeroPnl /\ add_yes = 0 /\ add_no = 0
    /\ shares_yes = 0 /\ shares_no = 0 /\ cost_yes = 0 /\ cost_no = 0
    /\ entry_side = None /\ entry_time = None
    /\ entered = FALSE /\ unwinded = FALSE /\ forced = FALSE /\ hedged = FALSE
    /\ dca_count = 0 /\ max_gross_exposure = 0
    /\ dca_used_yes = {} /\ dca_used_no = {}
    /\ below_seen = FALSE
    /\ result = NoResult
\* parts of the program a specification does not run
NoFetch == tokens = Empty /\ api = Empty /\ tok_map = Empty /\ yes = Empty /\ no = Empty
NoBuy == buy_price = 0 /\ buy_p = 0
NoBatch == series = Empty /\ sims = Empty
NoClient == attempt = 0 /\ responses = Empty /\ sleeps = Empty /\ outcome = Empty
NoSelect == candidates = Empty /\ best = Empty

\* Spec starts at the loop over a non-empty df whose rows Iterate draws one
\* at a time
Init ==
    /\ cfg \in Configs
    /\ market_end \in MarketEnds
    /\ pc = "loop"
    /\ Fresh
    /\ NoFetch /\ df = Empty /\ NoBuy /\ NoBatch
    /\ NoClient /\ NoSelect

\* one pass of the loop body over the row (t, y, n)
ProcessRow(t, y, n) ==
    LET mleft == market_end - t
        r == LoopBody(cfg, Pos, t, y, n, mleft)
    IN  /\ nrows' = nrows + 1
        /\ ts' = t /\ yes_p' = y /\ no_p' = n
        /\ minutes_left' = mleft
        /\ IF r.post
           THEN pnl' = r.h.pnl /\ add_yes' = r.h.add_yes /\ add_no' = r.h.add_no
           ELSE UNCHANGED <<pnl, add_yes, add_no>>
        /\ below_seen' = (below_seen \/ y <= cfg.entry_threshold
                                     \/ n <= cfg.entry_threshold)
        /\ SetPos(r.pos)
        /\ pc' = AfterRow(r.brk)

\* the loop reads the next row (yc, nc in cents, dt minutes after the last)
Iterate ==
    /\ pc = "loop"
    /\ nrows < MaxRows
    /\ \E yc \in Prices, nc \in Prices, dt \in Gaps :
         /\ ts + dt <= market_end
         /\ ProcessRow(ts + dt, yc * Cent, nc * Cent)
    /\ UNCHANGED <<cfg, market_end, result, fetchVars, buyVars, batchVars, clientVars, selectVars>>

\* final accounting at the last row read, and the return
Finish ==
    /\ LET s == FinalStage(cfg, Pos, yes_p, no_p)
       IN  /\ SetPos(s)
           /\ result' = TradeResult(cfg, s)
    /\ pc' = "done"
    /\ UNCHANGED <<cfg, market_end, rowVars, fetchVars, buyVars, batchVars, clientVars, selectVars>>

\* after the loop (break, or the series is exhausted): final accounting
FinalAccounting ==
    /\ \/ pc = "final"
       \/ pc = "loop" /\ nrows >= 1
    /\ Finish

Next == Iterate \/ FinalAccounting

Spec == Init /\ [][Next]_vars

\* ---- the head of simulate_market: tokens, price histories, join ----

\* outcome labels a token can carry ("" when the key is missing)
Outcomes == {"Yes", "No", "YES", "Up", "Down", ""}
\* str.lower on those labels
Lower(o) ==
    CASE o = "Yes" -> "yes"
      [] o = "YES" -> "yes"
      [] o = "No" -> "no"
      [] o = "Up" -> "up"
      [] o = "Down" -> "down"
      [] OTHER -> o
TokenIds == {"a", "b"}
Token(o, id) == [outcome |-> o, token_id |-> id]
TokenLists ==
    { <<Token("Yes", "a"), Token("No", "b")>>,
      <<Token("No", "b"), Token("YES", "a")>>,
      <<Token("Up", "a"), Token("Down", "b")>>,
      <<Token("Yes", "a"), Token("", "b")>>,
      <<Token("Yes", "a")>>,
      <<Token("No", "b")>>,
      <<Token("No", "a"), Token("No", "b")>>,
      <<>> }
\* a price that to_numeric coerces to NaN
NaN == 0 - 1
Point(t, pr) == [t |-> t, p |-> pr]
\* what a prices-history request can bring back: the request or its decoding
\* raises ("error"), a list of points ("ok"), a list without t/p ("no_columns")
ApiResponses ==
    { [status |-> "error", hist |-> <<>>],
      [status |-> "ok", hist |-> <<>>],
      [status |-> "no_columns", hist |-> <<Point(1, 34 * Cent)>>],
      [status |-> "ok", hist |-> <<Point(1, NaN)>>],
      [status |-> "ok", hist |-> <<Point(1, 34 * Cent)>>],
      [status |-> "ok", hist |-> <<Point(2, 64 * Cent)>>],
      [status |-> "ok", hist |-> <<Point(2, 20 * Cent), Point(1, 64 * Cent)>>],
      [status |-> "ok", hist |-> <<Point(1, 90 * Cent), Point(2, NaN), Point(3, 64 * Cent)>>] }

\* the dict comprehension of line 190: a later token overrides an earlier one
TokMap(toks) ==
    LET keys == {Lower(toks[i].outcome) : i \in DOMAIN toks}
        last(k) == CHOOSE i \in DOMAIN toks :
                      /\ Lower(toks[i].outcome) = k
                      /\ \A j \in DOMAIN toks : Lower(toks[j].outcome) = k => j <= i
    IN  [k \in keys |-> toks[last(k)].token_id]

\* the check of line 191 passes
HasYesOnly(tm) == "yes" \in DOMAIN tm
HasYesAndNo(tm) == "yes" \in DOMAIN tm /\ "no" \in DOMAIN tm

\* a DataFrame of prices: index (minutes) -> price, read in index order
get_prices_history(resp) ==
    IF resp.status = "error" THEN Empty
    ELSE IF resp.hist = <<>> THEN Empty
    ELSE IF resp.status = "no_columns" THEN Empty
    ELSE LET idx == {resp.hist[i].t : i \in {j \in DOMAIN resp.hist : resp.hist[j].p # NaN}}
         IN  [t \in idx |-> (CHOOSE pt \in {resp.hist[i] : i \in DOMAIN resp.hist} :
                               pt.t = t /\ pt.p # NaN).p]

\* yes.join(no, how="inner").dropna()
Join(y, n) == [t \in DOMAIN y \cap DOMAIN n |-> [yes |-> y[t], no |-> n[t]]]

\* the TradeResult of the two early returns
EmptyResult ==
    [entered |-> FALSE, unwinded |-> FALSE, forced |-> FALSE,
     entry_side |-> None, shares_yes |-> 0, shares_no |-> 0,
     total_cost |-> 0, locked_payout |-> 0, pnl |-> ZeroPnl,
     max_gross_exposure |-> 0, hedged |-> FALSE, dca_count |-> 0]

InitFetch ==
    /\ cfg \in Configs
    /\ market_end \in MarketEnds
    /\ pc = "tokens"
    /\ Fresh
    /\ tokens \in TokenLists
    /\ api \in [TokenIds -> ApiResponses]
    /\ tok_map = Empty /\ yes = Empty /\ no = Empty /\ df = Empty
    /\ NoBuy /\ NoBatch
    /\ NoClient /\ NoSelect

\* lines 190-195: tok_map, the early return, the two lookups
ReadTokens ==
    /\ pc = "tokens"
    /\ tok_map' = TokMap(tokens)
    /\ IF ~HasYesAndNo(tok_map')
       THEN result' = EmptyResult /\ pc' = "done"
       ELSE /\ UNCHANGED result
            /\ pc' = IF "yes" \in DOMAIN tok_map' /\ "no" \in DOMAIN tok_map'
                     THEN "fetch_yes" ELSE "raised"
    /\ UNCHANGED <<cfg, market_end, rowVars, posVars, tokens, api, yes, no, df,
                   buyVars, batchVars, clientVars, selectVars>>

FetchYes ==
    /\ pc = "fetch_yes"
    /\ yes' = get_prices_history(api[tok_map["yes"]])
    /\ pc' = "fetch_no"
    /\ UNCHANGED <<cfg, market_end, rowVars, posVars, result, tokens, api, tok_map,
                   no, df, buyVars, batchVars, clientVars, selectVars>>

FetchNo ==
    /\ pc = "fetch_no"
    /\ no' = get_prices_history(api[tok_map["no"]])
    /\ pc' = "join"
    /\ UNCHANGED <<cfg, market_end, rowVars, posVars, result, tokens, api, tok_map,
                   yes, df, buyVars, batchVars, clientVars, selectVars>>

\* lines 202-205: the join and the early return on an empty df
JoinSeries ==
    /\ pc = "join"
    /\ df' = Join(yes, no)
    /\ IF DOMAIN df' = {}
       THEN result' = EmptyResult /\ pc' = "done"
       ELSE UNCHANGED result /\ pc' = "loop"
    /\ UNCHANGED <<cfg, market_end, rowVars, posVars, tokens, api, tok_map, yes, no,
                   buyVars, batchVars, clientVars, selectVars>>

\* the rows of df the loop has not read yet
RowsLeft == {t \in DOMAIN df : t > ts}

\* the loop reads the next row of df
IterateDf ==
    /\ pc = "loop"
    /\ RowsLeft # {}
    /\ LET t == CHOOSE u \in RowsLeft : \A v \in RowsLeft : u <= v
       IN  ProcessRow(t, df[t].yes, df[t].no)
    /\ UNCHANGED <<cfg, market_end, result, fetchVars, buyVars, batchVars, clientVars, selectVars>>

\* after the loop over df (break, or no row is left): final accounting
FinalAccountingDf ==
    /\ \/ pc = "final"
       \/ pc = "loop" /\ RowsLeft = {}
    /\ Finish

NextFetch ==
    ReadTokens \/ FetchYes \/ FetchNo \/ JoinSeries \/ IterateDf \/ FinalAccountingDf

SpecFetch == InitFetch /\ [][NextFetch]_vars

\* the token list has both legs, whatever the case of the labels
LegsPresent ==
    /\ \E i \in DOMAIN tokens : tokens[i].outcome \in {"Yes", "YES"}
    /\ \E i \in DOMAIN tokens : tokens[i].outcome \in {"No"}
\* the token id the requests are made for
LegId(leg) ==
    LET is == {i \in DOMAIN tokens : Lower(tokens[i].outcome) = leg}
    IN  tokens[CHOOSE i \in is : \A j \in is : j <= i].token_id
\* some minute has a numeric price in both legs' answers
CommonMinute ==
    LET good(id) == IF api[id].status # "ok" THEN {}
                    ELSE {api[id].hist[i].t :
                            i \in {j \in DOMAIN api[id].hist : api[id].hist[j].p # NaN}}
    IN  good(LegId("yes")) \cap good(LegId("no")) # {}

\* C15: a market whose tokens lack a yes or a no outcome, or whose two price
\* histories share no minute with a numeric price (a failed fetch gives an
\* empty history), returns the all-zero TradeResult; the call never raises.
C15_BadMarket ==
    /\ pc # "raised"
    /\ (pc \in {"loop", "final"}) => (LegsPresent /\ CommonMinute)
    /\ (pc = "done" /\ (~LegsPresent \/ ~CommonMinute)) =>
         /\ result = EmptyResult
         /\ ~result.entered /\ ~result.unwinded /\ ~result.forced
         /\ result.pnl = ZeroPnl /\ result.total_cost = 0
         /\ result.shares_yes = 0 /\ result.shares_no = 0
         /\ nrows = 0
C15_Witness ==
    /\ pc = "done" /\ result = EmptyResult
    /\ LegsPresent
    /\ api[LegId("yes")].status = "error"
    /\ api[LegId("no")].status = "ok" /\ api[LegId("no")].hist # <<>>

\* ------------------------------------------------------------------ claims
\* the hypothetical unwind at the current row, from the current position
Hyp == CalcProfitIfUnwind(cfg, Pos, yes_p, no_p)
\* a step that processes a row with the position already entered
PostEntryRow == entered /\ pc = "loop" /\ nrows' = nrows + 1
\* fees * BPS = total_cost * fee_bps for the fees in pnl = payout - total_cost - fees
PnlIdentity(p, payout, total_cost, fee_bps) ==
    LET fees_whole == payout - total_cost - p.units
    IN  /\ p.frac \in 0..(BPS - 1)
        /\ (fees_whole - (total_cost \div BPS) * fee_bps) * BPS + p.frac
             = (total_cost % BPS) * fee_bps

\* C1: a series whose rows all have both prices strictly above entry_threshold
\* returns the all-zero result: not entered, not unwound, not forced, not
\* hedged, no entry side, no DCA, no shares, no cost, no payout, no exposure
\* and a PnL of 0.
C1_NoEntryAllZero ==
    (pc = "done" /\ ~below_seen) =>
        result = [entered |-> FALSE, unwinded |-> FALSE, forced |-> FALSE,
                  entry_side |-> None, shares_yes |-> 0, shares_no |-> 0,
                  total_cost |-> 0, locked_payout |-> 0, pnl |-> ZeroPnl,
                  max_gross_exposure |-> 0, hedged |-> FALSE, dca_count |-> 0]
C1_Witness == pc = "done" /\ ~below_seen /\ nrows = MaxRows

\* C2: the result has total_cost = cost_yes + cost_no, locked_payout =
\* max(shares_yes, shares_no) if unwound else 0, and pnl = locked_payout -
\* total_cost - total_cost * fee_bps / 10000, the fee taken once on the total.
C2_FinalPnl ==
    pc = "done" =>
        /\ result.total_cost = cost_yes + cost_no
        /\ result.locked_payout =
             IF result.unwinded
             THEN Max(result.shares_yes, result.shares_no) * One ELSE 0
        /\ PnlIdentity(result.pnl, result.locked_payout, result.total_cost, cfg.fee_bps)
C2_Witness ==
    /\ pc = "done" /\ result.unwinded /\ cfg.fee_bps > 0
    /\ result.dca_count > 0 /\ cfg.slippage_bps > 0 /\ result.pnl.units > 0

\* C3: once the position is unwound no later step trades: no further row is
\* read, and shares, costs, dca_count and hedged keep their values through
\* the final accounting.
C3_UnwoundFrozen ==
    [][unwinded =>
         /\ nrows' = nrows
         /\ shares_yes' = shares_yes /\ shares_no' = shares_no
         /\ cost_yes' = cost_yes /\ cost_no' = cost_no
         /\ dca_count' = dca_count /\ hedged' = hedged]_vars
C3_Witness ==
    /\ pc = "done" /\ result.unwinded /\ ~result.forced
    /\ nrows < MaxRows /\ ts - entry_time <= cfg.dca_time_cutoff_minutes

\* C4: a post-entry row with minutes_left > force_unwind_minutes unwinds iff
\* the hypothetical PnL after the row's DCA and hedge is >= profit_buffer,
\* and such an unwind leaves forced false.
C4_BufferRegime ==
    [][(PostEntryRow /\ minutes_left' > cfg.force_unwind_minutes) =>
         /\ pnl' = Hyp'.pnl
         /\ unwinded' <=> PnlGE(pnl', cfg.profit_buffer)
         /\ unwinded' => ~forced']_vars
C4_Witness ==
    /\ entered /\ pc = "loop" /\ ts > entry_time
    /\ minutes_left > cfg.force_unwind_minutes
    /\ PnlGE(pnl, 0) /\ PnlLT(pnl, cfg.profit_buffer) /\ ~unwinded

\* C5: a post-entry row with minutes_left <= force_unwind_minutes unwinds iff
\* the hypothetical PnL is >= 0, and such an unwind sets unwinded and forced.
C5_TimePressureRegime ==
    [][(PostEntryRow /\ minutes_left' <= cfg.force_unwind_minutes) =>
         /\ pnl' = Hyp'.pnl
         /\ unwinded' <=> PnlGE(pnl', 0)
         /\ unwinded' => forced']_vars
C5_Witness ==
    /\ entered /\ pc = "final" /\ ts > entry_time
    /\ minutes_left <= cfg.force_unwind_minutes
    /\ PnlGE(pnl, 0) /\ PnlLT(pnl, cfg.profit_buffer) /\ unwinded /\ forced

\* the entry side's and the other side's shares, cost and quoted mid
EntryShares == IF entry_side = "yes" THEN shares_yes ELSE shares_no
EntryCost == IF entry_side = "yes" THEN cost_yes ELSE cost_no
EntryUsed == IF entry_side = "yes" THEN dca_used_yes ELSE dca_used_no
OppShares == IF entry_side = "yes" THEN shares_no ELSE shares_yes
OppCost == IF entry_side = "yes" THEN cost_no ELSE cost_yes
OppPrice == IF entry_side = "yes" THEN no_p ELSE yes_p
\* the fill price of a buy at mid p, a whole number of cents: p * (1 + slippage)
FillPrice(p) ==
    Min(Max((p \div Cent) * ((Cent * (BPS + cfg.slippage_bps)) \div BPS), MinFill), MaxFill)

\* C6: at a post-entry row with minutes_left <= force_unwind_minutes whose
\* hypothetical PnL is negative, no share of the non-entry side is bought.
C6_NoHedgeWhenNegative ==
    [][(PostEntryRow /\ minutes_left' <= cfg.force_unwind_minutes
          /\ PnlLT(pnl', 0)) =>
         (OppShares' = OppShares /\ OppCost' = OppCost)]_vars
\* C7: when the series is exhausted with an entered position that is not
\* unwound, the hypothetical unwind is taken at the last row's prices: with
\* PnL >= 0 the shortfall is bought and the result is unwound, otherwise
\* nothing is bought, the result is not unwound, locked_payout = 0 and
\* pnl = -total_cost * (1 + fee_bps/10000); forced is true either way.
C7_Exhaustion ==
    [][(pc = "loop" /\ pc' = "done" /\ entered /\ ~unwinded) =>
         LET target == Max(shares_yes, shares_no)
             a_yes == target - shares_yes
             a_no == target - shares_no
             hyp_cost == cost_yes + cost_no + a_yes * FillPrice(yes_p)
                           + a_no * FillPrice(no_p)
             fee == cfg.fee_bps
             \* hyp_pnl >= 0: target - hyp_cost >= hyp_cost * fee / BPS, rounded up
             nonneg == target * One - hyp_cost - (hyp_cost \div BPS) * fee
                          >= ((hyp_cost % BPS) * fee + BPS - 1) \div BPS
         IN  /\ result'.forced
             /\ IF nonneg
                THEN /\ result'.unwinded
                     /\ result'.shares_yes = target /\ result'.shares_no = target
                     /\ result'.total_cost = hyp_cost
                     /\ result'.locked_payout = target * One
                ELSE /\ ~result'.unwinded
                     /\ result'.shares_yes = shares_yes
                     /\ result'.shares_no = shares_no
                     /\ result'.total_cost = cost_yes + cost_no
                     /\ result'.locked_payout = 0
                     /\ PnlIdentity(result'.pnl, 0, cost_yes + cost_no, fee)]_vars
C7_Witness ==
    /\ pc = "done" /\ result.entered /\ ~result.unwinded /\ result.forced
    /\ result.locked_payout = 0 /\ result.dca_count > 0 /\ cfg.fee_bps > 0

\* C8: forced is true in the result iff the market was entered and the run
\* ended by an unwind at minutes_left <= force_unwind_minutes or by exhaustion
\* of the series; an unwind at minutes_left > force_unwind_minutes returns
\* unwinded = true and forced = false.
C8_ForcedFlag ==
    [][pc' = "done" =>
         /\ result'.forced <=>
              (entered /\ \/ pc = "final" /\ minutes_left <= cfg.force_unwind_minutes
                          \/ pc = "loop")
         /\ (pc = "final" /\ minutes_left > cfg.force_unwind_minutes) =>
              (result'.unwinded /\ ~result'.forced)]_vars
C8_Witness ==
    /\ pc = "done" /\ result.unwinded /\ ~result.forced /\ result.hedged
    /\ minutes_left > cfg.force_unwind_minutes

\* C9: the hedge is bought at a row only if hedged was false, the non-entry
\* side held no shares, and the entry side's average cost after that row's
\* DCA plus the fill price of the opposite mid is < 1.0; while that sum is
\* >= 1.0, hedged stays false.
C9_HedgeGate ==
    [][(~hedged /\ hedged') =>
         (PostEntryRow /\ ~hedged /\ OppShares = 0
            /\ EntryCost' + EntryShares' * FillPrice(OppPrice')
                 < EntryShares' * One)]_vars
C9_Witness ==
    /\ hedged /\ dca_count > 0 /\ nrows = 2 /\ cfg.slippage_bps > 0
    /\ ~unwinded

\* the distinct values of dca_levels
LevelSet == {cfg.dca_levels[i] : i \in 1..Len(cfg.dca_levels)}

\* C10: a DCA level fills at most once in a run: every DCA fill of a step
\* uses up one level that was unused before, used levels stay used, so
\* dca_count never exceeds the number of distinct values in dca_levels.
C10_LevelOnce ==
    /\ [](/\ dca_count <= Cardinality(LevelSet)
          /\ entered => (dca_count = Cardinality(EntryUsed) /\ EntryUsed \subseteq LevelSet))
    /\ [][entered =>
            /\ EntryUsed \subseteq EntryUsed'
            /\ dca_count' - dca_count = Cardinality(EntryUsed' \ EntryUsed)
            /\ EntryShares' - EntryShares = cfg.size_per_leg * (dca_count' - dca_count)
            /\ \A lvl \in EntryUsed' \ EntryUsed :
                 (IF entry_side = "yes" THEN yes_p' ELSE no_p') <= lvl]_vars
C10_Witness ==
    /\ pc = "loop" /\ dca_count = Cardinality(LevelSet) /\ nrows = MaxRows
    /\ Cardinality(LevelSet) < Len(cfg.dca_levels)
    /\ (IF entry_side = "yes" THEN yes_p ELSE no_p) <= 15 * Cent

\* the entry side's quoted mid
EntryPrice == IF entry_side = "yes" THEN yes_p ELSE no_p
\* some level of dca_levels is unused on the entry side and at or above its mid
DcaLevelOpen == \E lvl \in LevelSet : lvl \notin EntryUsed /\ EntryPrice <= lvl

\* C11: a post-entry row more than dca_time_cutoff_minutes after entry_time
\* makes no DCA fill, whatever the entry side's price; a row at most the
\* cutoff after entry with the price at or below an unused level does fill.
C11_DcaTimeBox ==
    [][PostEntryRow =>
         /\ (ts' - entry_time > cfg.dca_time_cutoff_minutes) =>
              /\ dca_count' = dca_count
              /\ EntryShares' = EntryShares /\ EntryCost' = EntryCost
              /\ EntryUsed' = EntryUsed
         /\ (/\ ts' - entry_time <= cfg.dca_time_cutoff_minutes
             /\ \E lvl \in LevelSet : lvl \notin EntryUsed /\ EntryPrice' <= lvl) =>
              dca_count' > dca_count]_vars
C11_Witness ==
    /\ entered /\ pc = "loop" /\ ~unwinded
    /\ ts - entry_time > cfg.dca_time_cutoff_minutes
    /\ DcaLevelOpen

\* C12: the first row with yes_price <= entry_threshold or no_price <=
\* entry_threshold enters, whatever minutes_left is: size_per_leg shares of
\* the cheaper side (Yes on a tie) at its fill price and nothing else,
\* entry_side and entry_time set, the bought side's price <= entry_threshold;
\* a row with both prices above the threshold does not enter.
C12_Entry ==
    /\ [](entered <=> below_seen)
    /\ [][(~entered /\ pc = "loop" /\ nrows' = nrows + 1) =>
            IF yes_p' <= cfg.entry_threshold \/ no_p' <= cfg.entry_threshold
            THEN /\ entered' /\ entry_time' = ts'
                 /\ entry_side' = (IF yes_p' <= no_p' THEN "yes" ELSE "no")
                 /\ EntryShares' = cfg.size_per_leg
                 /\ EntryCost' = cfg.size_per_leg * FillPrice(EntryPrice')
                 /\ OppShares' = 0 /\ OppCost' = 0
                 /\ EntryPrice' <= cfg.entry_threshold
                 /\ EntryPrice' <= OppPrice'
            ELSE /\ ~entered' /\ entry_side' = None /\ entry_time' = None
                 /\ shares_yes' = 0 /\ shares_no' = 0
                 /\ cost_yes' = 0 /\ cost_no' = 0]_vars
C12_Witness ==
    /\ entered /\ entry_time = ts /\ nrows = MaxRows /\ pc = "loop"
    /\ minutes_left <= cfg.force_unwind_minutes
    /\ yes_p = no_p /\ entry_side = "yes" /\ cfg.slippage_bps > 0

\* C13: the hedge buys the non-entry side in the quantity of the entry
\* side's shares at that moment, all at the fill price of the opposite mid,
\* leaving shares_yes = shares_no and hedged = true.
C13_HedgeSize ==
    [][(~hedged /\ hedged') =>
         /\ OppShares' = EntryShares'
         /\ shares_yes' = shares_no'
         /\ OppCost' = EntryShares' * FillPrice(OppPrice')]_vars
C13_Witness ==
    /\ hedged /\ entry_side = "no"
    /\ shares_yes = shares_no /\ shares_yes > 2 * cfg.size_per_leg
    /\ cfg.slippage_bps > 0

\* C14: the hedge is bought at most once: hedged never turns false again,
\* a DCA fill after the hedge can leave the entry side with more shares than
\* the other side, and from then on the other side is bought only by an
\* unwind that equalizes the legs.
C14_HedgeOnce ==
    [][hedged =>
         /\ hedged'
         /\ (OppShares' # OppShares \/ OppCost' # OppCost) =>
              /\ unwinded' /\ OppShares' = EntryShares'
              /\ OppCost' = OppCost + (EntryShares' - OppShares) * FillPrice(OppPrice')]_vars
C14_Witness ==
    /\ hedged /\ ~unwinded /\ pc = "loop"
    /\ OppShares > 0 /\ EntryShares > OppShares

\* ---- the worked example: default Config, t0 = minute 1, market end 16 ----

ExampleConfig ==
    [entry_threshold |-> 35 * Cent,
     dca_levels |-> <<25 * Cent, 15 * Cent, 5 * Cent>>,
     dca_time_cutoff_minutes |-> 5,
     profit_buffer |-> One \div 100,
     size_per_leg |-> 100,
     force_unwind_minutes |-> 5,
     slippage_bps |-> 10,
     fee_bps |-> 0]
ExampleT0 == 1
ExampleEnd == ExampleT0 + 15
\* No mids of the first two rows, rows that may lie between the second and
\* the last
ExampleNo == {66 * Cent, 72 * Cent, 80 * Cent}
ExampleMidRows == [yes : {30 * Cent, 42 * Cent}, no : {72 * Cent, 80 * Cent}]
ExampleMiddles == UNION {[D -> ExampleMidRows] : D \in SUBSET {ExampleT0 + 4, ExampleT0 + 8}}
ExampleSeries ==
    { [t \in {ExampleT0, ExampleT0 + 2, ExampleT0 + 12} \cup DOMAIN mid |->
         IF t = ExampleT0 THEN [yes |-> 34 * Cent, no |-> n1]
         ELSE IF t = ExampleT0 + 2 THEN [yes |-> 24 * Cent, no |-> n2]
         ELSE IF t = ExampleT0 + 12 THEN [yes |-> 42 * Cent, no |-> 60 * Cent]
         ELSE mid[t]] : n1 \in ExampleNo, n2 \in ExampleNo, mid \in ExampleMiddles }

InitExample ==
    /\ cfg = ExampleConfig
    /\ market_end = ExampleEnd
    /\ pc = "loop"
    /\ Fresh
    /\ NoFetch /\ df \in ExampleSeries
    /\ NoBuy /\ NoBatch
    /\ NoClient /\ NoSelect

NextExample == IterateDf \/ FinalAccountingDf

SpecExample == InitExample /\ [][NextExample]_vars

\* the fills of the example in micro-dollars: 0.34, 0.24 and 0.60 times 1.001
Fill34 == 34 * Cent + (34 * Cent) \div 1000
Fill24 == 24 * Cent + (24 * Cent) \div 1000
Fill60 == 60 * Cent + (60 * Cent) \div 1000
\* the run reads the last row of the example holding the 200 Yes shares of
\* the entry and the one DCA fill, with nothing bought on the No side yet
ExampleLastRow ==
    /\ pc = "loop" /\ ts' = ExampleT0 + 12 /\ minutes_left' = 3
    /\ entry_side = "yes" /\ entry_time = ExampleT0 /\ dca_count = 1
    /\ shares_yes = 200 /\ cost_yes = 100 * Fill34 + 100 * Fill24
    /\ shares_no = 0 /\ cost_no = 0 /\ ~hedged /\ ~unwinded
\* the example's run has returned
ExampleDone ==
    /\ pc = "done" /\ ts = ExampleT0 + 12
    /\ cost_yes = 100 * Fill34 + 100 * Fill24 /\ cost_no = 200 * Fill60
\* the fills of the example, common to the claim and its amendment
ExampleFills ==
    /\ [][(pc = "loop" /\ ts' = ExampleT0) =>
            /\ entry_side' = "yes" /\ shares_yes' = 100 /\ cost_yes' = 100 * Fill34
            /\ shares_no' = 0]_vars
    /\ [][(pc = "loop" /\ ts' = ExampleT0 + 2) =>
            /\ dca_count' = 1 /\ shares_yes' = 200
            /\ cost_yes' = 100 * Fill34 + 100 * Fill24]_vars
    /\ [][ExampleLastRow =>
            /\ shares_yes' = 200 /\ shares_no' = 200 /\ cost_no' = 200 * Fill60
            /\ dca_count' = 1 /\ unwinded' /\ forced' /\ pc' = "final"]_vars

\* C16 as claimed: total_cost is about 176.17 and pnl about 23.83 (to the cent)
C16_ExampleAsClaimed ==
    /\ ExampleFills
    /\ [](ExampleDone =>
            /\ result.shares_yes = 200 /\ result.shares_no = 200
            /\ result.total_cost = 100 * Fill34 + 100 * Fill24 + 200 * Fill60
            /\ result.total_cost >= 176165000 /\ result.total_cost <= 176175000
            /\ result.locked_payout = 200 * One
            /\ PnlGE(result.pnl, [units |-> 23825000, frac |-> 0])
            /\ PnlGE([units |-> 23835000, frac |-> 0], result.pnl)
            /\ result.unwinded /\ result.forced)

\* C16: in the example the run enters Yes at t0 at 0.34034, makes one DCA
\* fill at 0.24024 and at the last row (minutes_left = 3) buys 200 No at
\* 0.6006, ending with 200/200 shares, total_cost = 34.034 + 24.024 + 120.12
\* = 178.178, locked_payout 200, pnl = 21.822, unwinded and forced.
C16_Example ==
    /\ ExampleFills
    /\ [](ExampleDone =>
            /\ result.shares_yes = 200 /\ result.shares_no = 200
            /\ result.total_cost = 100 * Fill34 + 100 * Fill24 + 200 * Fill60
            /\ result.total_cost = 178178000
            /\ result.locked_payout = 200 * One
            /\ result.pnl = [units |-> 21822000, frac |-> 0]
            /\ result.unwinded /\ result.forced /\ result.entered
            /\ result.entry_side = "yes" /\ result.dca_count = 1)
C16_Witness ==
    /\ ExampleDone /\ result.unwinded /\ dca_count = 1
    /\ ExampleT0 + 4 \in DOMAIN df /\ ExampleT0 + 8 \in DOMAIN df

\* the last row read is the row the position was entered on
AtEntryRow == entered /\ ts = entry_time
\* the one fill of the entry and nothing else
OnlyEntryFill ==
    /\ EntryShares = cfg.size_per_leg
    /\ EntryCost = cfg.size_per_leg * FillPrice(EntryPrice)
    /\ dca_count = 0 /\ ~hedged

BuyMids ==
    {0, 100, 10000, 340000, 500000, 900000, 990000, 999000, 999900, 999950, One}
BuySlippages == {0, 10, 100, 200, 1000, 5000, 10000, 20000}
\* price * (1 + slippage_bps/10000) is a whole number of micro-dollars
ExactProduct(m, sl) == ((m % BPS) * (BPS + sl)) % BPS = 0

InitBuy ==
    /\ \E sl \in BuySlippages : cfg = [ExampleConfig EXCEPT !.slippage_bps = sl]
    /\ market_end \in MarketEnds
    /\ pc = "buy"
    /\ Fresh
    /\ NoFetch /\ df = Empty /\ NoBatch
    /\ buy_price \in {m \in BuyMids : ExactProduct(m, cfg.slippage_bps)}
    /\ buy_p = 0
    /\ NoClient /\ NoSelect

\* one call of buy(price)
Buy ==
    /\ pc = "buy"
    /\ buy_p' = buy(cfg, buy_price)
    /\ pc' = "bought"
    /\ UNCHANGED <<cfg, market_end, rowVars, posVars, result, fetchVars, buy_price,
                   batchVars, clientVars, selectVars>>

NextBuy == Buy

SpecBuy == InitBuy /\ [][NextBuy]_vars

\* mid * (1 + slippage_bps/10000) for the call's arguments, and its clamp
Slipped ==
    (buy_price \div BPS) * (BPS + cfg.slippage_bps)
      + ((buy_price % BPS) * (BPS + cfg.slippage_bps)) \div BPS
Clamped ==
    IF Slipped < MinFill THEN MinFill
    ELSE IF Slipped > MaxFill THEN MaxFill
    ELSE Slipped

C19_HighWaterMark ==
    pc = "done" =>
        /\ result.max_gross_exposure >=
             yes_p * result.shares_yes + no_p * result.shares_no
        /\ result.entered => result.max_gross_exposure > 0

\* ---- a batch of markets, their simulations run in any interleaving ----

Markets == {"m1", "m2"}
BatchRows ==
    { [yes |-> 34 * Cent, no |-> 64 * Cent],
      [yes |-> 20 * Cent, no |-> 64 * Cent],
      [yes |-> 90 * Cent, no |-> 10 * Cent] }
BatchLengths == {1, 2, 3}
BatchSeries == UNION {[1..len -> BatchRows] : len \in BatchLengths}
BatchConfigs == {c \in Configs : c.fee_bps = 0 /\ c.slippage_bps > 0}

\* the locals of one call of simulate_market before its first row
FreshSim ==
    [pos |-> [shares_yes |-> 0, shares_no |-> 0, cost_yes |-> 0, cost_no |-> 0,
              entry_side |-> None, entry_time |-> None,
              entered |-> FALSE, unwinded |-> FALSE, forced |-> FALSE,
              hedged |-> FALSE, dca_count |-> 0, max_gross_exposure |-> 0,
              dca_used_yes |-> {}, dca_used_no |-> {}],
     pc |-> "loop", ts |-> 0, yes_p |-> 0, no_p |-> 0, result |-> NoResult]

\* the position a call works on: its own locals
LocalsSharedCount(ss, m) ==
    LET all == {ss[k].pos.dca_count : k \in DOMAIN ss}
    IN  [ss[m].pos EXCEPT !.dca_count = CHOOSE x \in all : \A z \in all : z <= x]
LocalsSharedLevels(ss, m) ==
    [ss[m].pos EXCEPT
       !.dca_used_yes = UNION {ss[k].pos.dca_used_yes : k \in DOMAIN ss},
       !.dca_used_no = UNION {ss[k].pos.dca_used_no : k \in DOMAIN ss}]
Locals(ss, m) == ss[m].pos

InitBatch ==
    /\ cfg \in BatchConfigs
    /\ market_end \in MarketEnds
    /\ pc = "batch"
    /\ Fresh
    /\ NoFetch /\ df = Empty /\ NoBuy
    /\ series \in [Markets -> BatchSeries]
    /\ sims = [m \in Markets |-> FreshSim]
    /\ NoClient /\ NoSelect

\* the rows of market m its simulation has not read yet
SimRowsLeft(m) == {t \in DOMAIN series[m] : t > sims[m].ts}

\* the simulation of market m reads its next row
SimIterate(m) ==
    /\ pc = "batch"
    /\ sims[m].pc = "loop"
    /\ SimRowsLeft(m) # {}
    /\ LET t == CHOOSE u \in SimRowsLeft(m) : \A v \in SimRowsLeft(m) : u <= v
           row == series[m][t]
           r == LoopBody(cfg, Locals(sims, m), t, row.yes, row.no, market_end - t)
       IN  sims' = [sims EXCEPT ![m] =
                      [pos |-> r.pos, pc |-> AfterRow(r.brk), ts |-> t,
                       yes_p |-> row.yes, no_p |-> row.no, result |-> NoResult]]
    /\ UNCHANGED <<cfg, market_end, pc, rowVars, posVars, result, fetchVars, buyVars,
                   series, clientVars, selectVars>>

\* the simulation of market m does its final accounting and returns
SimFinal(m) ==
    /\ pc = "batch"
    /\ \/ sims[m].pc = "final"
       \/ sims[m].pc = "loop" /\ SimRowsLeft(m) = {}
    /\ LET s == FinalStage(cfg, Locals(sims, m), sims[m].yes_p, sims[m].no_p)
       IN  sims' = [sims EXCEPT ![m].pos = s, ![m].pc = "done",
                                ![m].result = TradeResult(cfg, s)]
    /\ UNCHANGED <<cfg, market_end, pc, rowVars, posVars, result, fetchVars, buyVars,
                   series, clientVars, selectVars>>

NextBatch == (\E m \in Markets : SimIterate(m)) \/ (\E m \in Markets : SimFinal(m))

SpecBatch == InitBatch /\ [][NextBatch]_vars

\* simulate_market on a non-empty joined series d, run on its own: the loop
\* from the row after index t with locals s, then the final accounting
RECURSIVE RunLoop(_, _, _, _, _)
RunLoop(c, m_end, d, s, t) ==
    LET left == {u \in DOMAIN d : u > t}
    IN  IF left = {}
        THEN TradeResult(c, FinalStage(c, s, d[t].yes, d[t].no))
        ELSE LET u == CHOOSE v \in left : \A w \in left : v <= w
                 r == LoopBody(c, s, u, d[u].yes, d[u].no, m_end - u)
             IN  IF r.brk
                 THEN TradeResult(c, FinalStage(c, r.pos, d[u].yes, d[u].no))
                 ELSE RunLoop(c, m_end, d, r.pos, u)
simulate_market(c, m_end, d) == RunLoop(c, m_end, d, FreshSim.pos, 0)

\* C20: in every interleaving of the simulations of a batch, each market's
\* TradeResult is the result of simulating that market alone, and a step of
\* one simulation leaves the locals of every other unchanged.
C20_Independent ==
    /\ [](pc = "batch" =>
            \A m \in Markets :
               sims[m].pc = "done" =>
                  sims[m].result = simulate_market(cfg, market_end, series[m]))
    /\ [][pc = "batch" =>
            \A m \in Markets :
               sims'[m] # sims[m] => \A k \in Markets \ {m} : sims'[k] = sims[k]]_vars
C20_Witness ==
    /\ pc = "batch"
    /\ sims["m1"].pc = "done" /\ sims["m1"].result.dca_count > 0
    /\ sims["m2"].pc = "loop" /\ sims["m2"].ts > 0 /\ sims["m2"].pos.dca_count > 0
    /\ series["m1"] # series["m2"]
    /\ sims["m1"].result.entry_side = sims["m2"].pos.entry_side

OrigConfigs ==
    [entry_threshold : EntryThresholds,
     hedge_threshold : {65 * Cent},
     dca_levels : DcaLevelChoices,
     size_per_leg : Sizes,
     force_unwind_minutes : ForceUnwindMinutes,
     slippage_bps : SlippageChoices,
     fee_bps : FeeChoices]

\* locked_pnl_if_unwind_now()
LockedPnlIfUnwindNow(c, s, y, n) ==
    LET target == Max(s.shares_yes, s.shares_no)
        a_yes == target - s.shares_yes
        a_no == target - s.shares_no
        total_cost == s.cost_yes + s.cost_no + a_yes * buy(c, y) + a_no * buy(c, n)
    IN  [pnl |-> PnlOf(c, target * One, total_cost), total_cost |-> total_cost,
         add_yes |-> a_yes, add_no |-> a_no]

\* the two `if add_... > 0` purchases of an unwind
OrigEqualize(c, s, y, n) ==
    LET target == Max(s.shares_yes, s.shares_no)
        a_yes == target - s.shares_yes
        a_no == target - s.shares_no
        s1 == IF a_yes > 0
              THEN [s EXCEPT !.cost_yes = @ + a_yes * buy(c, y), !.shares_yes = @ + a_yes]
              ELSE s
    IN  IF a_no > 0
        THEN [s1 EXCEPT !.cost_no = @ + a_no * buy(c, n), !.shares_no = @ + a_no]
        ELSE s1

\* the condition of the force unwind at the top of the loop body
OrigForceDueIfProfit(c, s, y, n, mleft) ==
    /\ mleft <= c.force_unwind_minutes
    /\ (s.shares_yes > 0 \/ s.shares_no > 0)
    /\ PnlGE(LockedPnlIfUnwindNow(c, s, y, n).pnl, 0)
OrigForceDue(c, s, y, n, mleft) ==
    mleft <= c.force_unwind_minutes /\ (s.shares_yes > 0 \/ s.shares_no > 0)

\* the body of `if not entered`, before its `continue`
OrigEntry(c, s, y, n) ==
    IF y <= c.entry_threshold \/ n <= c.entry_threshold
    THEN IF y <= n
         THEN [s EXCEPT !.entered = TRUE, !.entry_side = "yes",
                        !.shares_yes = @ + c.size_per_leg,
                        !.cost_yes = @ + c.size_per_leg * buy(c, y)]
         ELSE [s EXCEPT !.entered = TRUE, !.entry_side = "no",
                        !.shares_no = @ + c.size_per_leg,
                        !.cost_no = @ + c.size_per_leg * buy(c, n)]
    ELSE s

\* `for lvl in cfg.dca_levels` on the Yes side and on the No side, from index i on
RECURSIVE OrigDcaYes(_, _, _, _)
OrigDcaYes(c, s, y, i) ==
    IF i > Len(c.dca_levels) THEN s
    ELSE LET lvl == c.dca_levels[i]
         IN  IF y <= lvl /\ lvl \notin s.dca_used_yes
             THEN OrigDcaYes(c, [s EXCEPT !.dca_used_yes = @ \cup {lvl},
                                          !.shares_yes = @ + c.size_per_leg,
                                          !.cost_yes = @ + c.size_per_leg * buy(c, y)],
                             y, i + 1)
             ELSE OrigDcaYes(c, s, y, i + 1)
RECURSIVE OrigDcaNo(_, _, _, _)
OrigDcaNo(c, s, n, i) ==
    IF i > Len(c.dca_levels) THEN s
    ELSE LET lvl == c.dca_levels[i]
         IN  IF n <= lvl /\ lvl \notin s.dca_used_no
             THEN OrigDcaNo(c, [s EXCEPT !.dca_used_no = @ \cup {lvl},
                                         !.shares_no = @ + c.size_per_leg,
                                         !.cost_no = @ + c.size_per_leg * buy(c, n)],
                            n, i + 1)
             ELSE OrigDcaNo(c, s, n, i + 1)
OrigDca(c, s, y, n) ==
    IF s.entry_side = "yes" THEN OrigDcaYes(c, s, y, 1)
    ELSE IF s.entry_side = "no" THEN OrigDcaNo(c, s, n, 1)
    ELSE s

\* the hedge_threshold rule: one lot of the other side while it holds nothing
OrigHedge(c, s, y, n) ==
    LET s1 == IF s.entry_side = "yes" /\ s.shares_no = 0 /\ n <= c.hedge_threshold
              THEN [s EXCEPT !.shares_no = @ + c.size_per_leg,
                             !.cost_no = @ + c.size_per_leg * buy(c, n)]
              ELSE s
    IN  IF s1.entry_side = "no" /\ s1.shares_yes = 0 /\ y <= c.hedge_threshold
        THEN [s1 EXCEPT !.shares_yes = @ + c.size_per_leg,
                        !.cost_yes = @ + c.size_per_leg * buy(c, y)]
        ELSE s1

\* one iteration of the original script's loop
OrigLoopBody(c, s, y, n, mleft) ==
    LET s0 == [s EXCEPT !.max_gross_exposure = Max(@, y * s.shares_yes + n * s.shares_no)]
    IN  IF OrigForceDue(c, s0, y, n, mleft)
        THEN [pos |-> [OrigEqualize(c, s0, y, n) EXCEPT !.unwinded = TRUE, !.forced = TRUE],
              brk |-> TRUE, calc |-> TRUE, h |-> LockedPnlIfUnwindNow(c, s0, y, n)]
        ELSE IF ~s0.entered
        THEN [pos |-> OrigEntry(c, s0, y, n), brk |-> FALSE, calc |-> FALSE]
        ELSE LET s1 == OrigDca(c, s0, y, n)
                 s2 == OrigHedge(c, s1, y, n)
                 h == LockedPnlIfUnwindNow(c, s2, y, n)
             IN  IF PnlGE(h.pnl, 0)
                 THEN [pos |-> [OrigEqualize(c, s2, y, n) EXCEPT !.unwinded = TRUE],
                       brk |-> TRUE, calc |-> TRUE, h |-> h]
                 ELSE [pos |-> s2, brk |-> FALSE, calc |-> TRUE, h |-> h]

\* the final accounting of the original script
OrigFinalStageIfProfit(c, s, y, n) ==
    IF (s.shares_yes > 0 \/ s.shares_no > 0) /\ ~s.unwinded
    THEN IF PnlGE(LockedPnlIfUnwindNow(c, s, y, n).pnl, 0)
         THEN [OrigEqualize(c, s, y, n) EXCEPT !.unwinded = TRUE, !.forced = TRUE]
         ELSE [s EXCEPT !.forced = TRUE]
    ELSE s
OrigFinalStage(c, s, y, n) ==
    IF (s.shares_yes > 0 \/ s.shares_no > 0) /\ ~s.unwinded
    THEN [OrigEqualize(c, s, y, n) EXCEPT !.unwinded = TRUE, !.forced = TRUE]
    ELSE s

\* the TradeResult of the original script
OrigTradeResult(c, s) ==
    LET total_cost == s.cost_yes + s.cost_no
        locked_payout == Max(s.shares_yes, s.shares_no) * One
    IN  [entered |-> s.entered, unwinded |-> s.unwinded, forced |-> s.forced,
         entry_side |-> s.entry_side,
         shares_yes |-> s.shares_yes, shares_no |-> s.shares_no,
         total_cost |-> total_cost, locked_payout |-> locked_payout,
         pnl |-> PnlOf(c, locked_payout, total_cost),
         max_gross_exposure |-> s.max_gross_exposure]

InitOrig ==
    /\ cfg \in OrigConfigs
    /\ market_end \in MarketEnds
    /\ pc = "loop"
    /\ Fresh
    /\ NoFetch /\ df = Empty /\ NoBuy /\ NoBatch
    /\ NoClient /\ NoSelect

\* the original script's loop reads the next row
OrigIterate ==
    /\ pc = "loop"
    /\ nrows < MaxRows
    /\ \E yc \in Prices, nc \in Prices, dt \in Gaps :
         LET t == ts + dt
             y == yc * Cent
             n == nc * Cent
             mleft == market_end - t
             r == OrigLoopBody(cfg, Pos, y, n, mleft)
         IN  /\ t <= market_end
             /\ nrows' = nrows + 1
             /\ ts' = t /\ yes_p' = y /\ no_p' = n
             /\ minutes_left' = mleft
             /\ IF r.calc
                THEN pnl' = r.h.pnl /\ add_yes' = r.h.add_yes /\ add_no' = r.h.add_no
                ELSE UNCHANGED <<pnl, add_yes, add_no>>
             /\ below_seen' = (below_seen \/ y <= cfg.entry_threshold
                                          \/ n <= cfg.entry_threshold)
             /\ SetPos(r.pos)
             /\ pc' = IF r.brk THEN "final" ELSE "loop"
    /\ UNCHANGED <<cfg, market_end, result, fetchVars, buyVars, batchVars, clientVars, selectVars>>

\* after the loop of the original script: final accounting and the return
OrigFinalAccounting ==
    /\ \/ pc = "final"
       \/ pc = "loop" /\ nrows >= 1
    /\ LET s == OrigFinalStage(cfg, Pos, yes_p, no_p)
       IN  /\ SetPos(s)
           /\ result' = OrigTradeResult(cfg, s)
    /\ pc' = "done"
    /\ UNCHANGED <<cfg, market_end, rowVars, fetchVars, buyVars, batchVars, clientVars, selectVars>>

NextOrig == OrigIterate \/ OrigFinalAccounting

SpecOrig == InitOrig /\ [][NextOrig]_vars

\* C22: in the original script, a row with minutes_left <= force_unwind_minutes
\* read while the position holds shares equalizes the legs by buying the
\* shortfall at the row's fill prices whatever the PnL, sets unwinded and
\* forced and ends the loop; no entry, DCA or hedge runs on that row, and the
\* result is unwinded and forced.
C22_OrigForceUnwind ==
    /\ [][(pc = "loop" /\ nrows' = nrows + 1
             /\ minutes_left' <= cfg.force_unwind_minutes
             /\ (shares_yes > 0 \/ shares_no > 0)) =>
            LET target == Max(shares_yes, shares_no)
            IN  /\ shares_yes' = target /\ shares_no' = target
                /\ cost_yes' = cost_yes + (target - shares_yes) * FillPrice(yes_p')
                /\ cost_no' = cost_no + (target - shares_no) * FillPrice(no_p')
                /\ unwinded' /\ forced' /\ pc' = "final"
                /\ dca_used_yes' = dca_used_yes /\ dca_used_no' = dca_used_no
                /\ entry_side' = entry_side]_vars
    /\ []((pc = "done" /\ forced) => (result.unwinded /\ result.forced))
C22_Witness ==
    /\ pc = "done" /\ result.forced /\ result.unwinded
    /\ minutes_left <= cfg.force_unwind_minutes
    /\ PnlLT(result.pnl, 0) /\ PnlLT(pnl, 0)
    /\ result.shares_yes > cfg.size_per_leg

\* C23: in the original script every entered market returns unwound:
\* unwinded = true, shares_yes = shares_no > 0, locked_payout = that share
\* count (a position open at the end of the series is completed at the last
\* row's prices whatever the PnL), and an unwind that is not forced has
\* pnl >= 0.
C23_OrigAlwaysUnwound ==
    (pc = "done" /\ result.entered) =>
        /\ result.unwinded
        /\ result.shares_yes = result.shares_no /\ result.shares_yes > 0
        /\ result.locked_payout = result.shares_yes * One
        /\ ~result.forced => PnlGE(result.pnl, 0)
C23_Witness ==
    /\ pc = "done" /\ result.entered /\ result.unwinded /\ result.forced
    /\ minutes_left > cfg.force_unwind_minutes
    /\ PnlLT(result.pnl, 0) /\ nrows >= 2

\* ---- GammaClient / ClobClient _request_with_retry ----

RETRY_ATTEMPTS == 3
\* delays in milliseconds
RETRY_BACKOFF_BASE == 1000
REQUEST_DELAY_SECONDS == 500

RetryStatuses == {429, 500, 502, 503, 504}
\* what one HTTP attempt can meet: a good answer, an HTTP error status
\* (raise_for_status), any other RequestException (connection, timeout,
\* undecodable body)
HttpResponses ==
    {[kind |-> "ok", status |-> 200]}
      \cup [kind : {"http"}, status : RetryStatuses \cup {400, 404}]
      \cup {[kind |-> "failed", status |-> 0]}

\* the handler sleeps and continues instead of raising
ShouldRetryAnyStatus(r, a) == a < RETRY_ATTEMPTS - 1
ShouldRetry(r, a) ==
    IF r.kind = "http"
    THEN r.status \in RetryStatuses /\ a < RETRY_ATTEMPTS - 1
    ELSE a < RETRY_ATTEMPTS - 1

Backoff(a) == RETRY_BACKOFF_BASE * 2^a

InitClient ==
    /\ cfg = ExampleConfig
    /\ market_end = ExampleEnd
    /\ pc = "request"
    /\ Fresh
    /\ NoFetch /\ df = Empty /\ NoBuy /\ NoBatch /\ NoSelect
    /\ attempt = 0 /\ responses = <<>> /\ sleeps = <<>>
    /\ outcome = [kind |-> "running"]

\* one pass of `for attempt in range(config.RETRY_ATTEMPTS)`; the raise after
\* the loop is never reached, the last pass returns or raises
Request ==
    /\ pc = "request"
    /\ attempt < RETRY_ATTEMPTS
    /\ \E r \in HttpResponses :
         /\ responses' = Append(responses, r)
         /\ IF r.kind = "ok"
            THEN /\ sleeps' = Append(sleeps, REQUEST_DELAY_SECONDS)
                 /\ outcome' = [kind |-> "returned", body |-> attempt + 1]
                 /\ pc' = "returned"
                 /\ UNCHANGED attempt
            ELSE IF ShouldRetry(r, attempt)
            THEN /\ sleeps' = Append(sleeps, Backoff(attempt))
                 /\ attempt' = attempt + 1
                 /\ UNCHANGED <<outcome, pc>>
            ELSE /\ outcome' = [kind |-> "raised", error |-> r, at |-> attempt + 1]
                 /\ pc' = "raised"
                 /\ UNCHANGED <<attempt, sleeps>>
    /\ UNCHANGED <<cfg, market_end, rowVars, posVars, result, fetchVars, buyVars,
                   batchVars, selectVars>>

NextClient == Request

\* each HTTP attempt ends (timeout=30) and the loop goes on to its next pass
SpecClient == InitClient /\ [][NextClient]_vars /\ WF_vars(Request)

\* the attempts made so far, all but the last, failed in a way that is retried
EarlierRetried ==
    \A i \in 1..(Len(responses) - 1) :
       /\ \/ responses[i].kind = "failed"
          \/ responses[i].kind = "http" /\ responses[i].status \in RetryStatuses
       /\ sleeps[i] = RETRY_BACKOFF_BASE * 2^(i - 1)

Absent == 0 - 1
\* candidate markets: liquidity, volume, and end dates as day numbers
MarketDicts ==
    [liquidity : {Absent, 0, 1000, 5000},
     volume : {Absent, 2000},
     endDate : {Absent, 1, 2},
     end_date_iso : {Absent, 3}]
CandidateLengths == {0, 1, 2}
CandidateLists == UNION {[1..len -> MarketDicts] : len \in CandidateLengths}

\* the truth value Python's `or` sees
Truthy(v) == v # Absent /\ v # 0
\* m.get("liquidity") is not None or m.get("volume") is not None
HasLiquidity(m) == m.liquidity # Absent \/ m.volume # Absent
\* float(m.get("liquidity") or m.get("volume") or 0)
LiquidityKey(m) ==
    IF Truthy(m.liquidity) THEN m.liquidity
    ELSE IF Truthy(m.volume) THEN m.volume
    ELSE 0
\* m.get("endDate") is not None or m.get("end_date_iso") is not None
HasEndDate(m) == m.endDate # Absent \/ m.end_date_iso # Absent
\* m.get("endDate") or m.get("end_date_iso") or ""
EndDateKey(m) ==
    IF Truthy(m.endDate) THEN m.endDate
    ELSE IF Truthy(m.end_date_iso) THEN m.end_date_iso
    ELSE 0
\* sorted(..., key, reverse=True)[0] over the candidates' keys at the indices idx:
\* the greatest key, the earliest candidate among equal keys
SortedFirst(keys, idx) ==
    CHOOSE i \in idx :
       \A j \in idx : \/ keys[j] < keys[i]
                      \/ keys[j] = keys[i] /\ i <= j
Chosen(cs, i) == [kind |-> "market", index |-> i, market |-> cs[i]]

select_best_market(cs) ==
    IF cs = <<>> THEN [kind |-> "none"]
    ELSE LET with_liquidity == {i \in DOMAIN cs : HasLiquidity(cs[i])}
             with_end_date == {i \in DOMAIN cs : HasEndDate(cs[i])}
         IN  IF with_liquidity # {}
             THEN Chosen(cs, SortedFirst([i \in DOMAIN cs |-> LiquidityKey(cs[i])], with_liquidity))
             ELSE IF with_end_date # {}
             THEN Chosen(cs, SortedFirst([i \in DOMAIN cs |-> EndDateKey(cs[i])], with_end_date))
             ELSE Chosen(cs, 1)

InitSelect ==
    /\ cfg = ExampleConfig
    /\ market_end = ExampleEnd
    /\ pc = "select"
    /\ Fresh
    /\ NoFetch /\ df = Empty /\ NoBuy /\ NoBatch /\ NoClient
    /\ candidates \in CandidateLists
    /\ best = [kind |-> "pending"]

\* one call of select_best_market(candidates)
Select ==
    /\ pc = "select"
    /\ best' = select_best_market(candidates)
    /\ pc' = "selected"
    /\ UNCHANGED <<cfg, market_end, rowVars, posVars, result, fetchVars, buyVars,
                   batchVars, clientVars, candidates>>

NextSelect == Select

SpecSelect == InitSelect /\ [][NextSelect]_vars

\* a candidate's liquidity, or its volume when it has no liquidity
LiquidityOrVolume(m) == IF m.liquidity # Absent THEN m.liquidity ELSE m.volume
\* a candidate's end date, from either key
EndDateOf(m) == IF m.endDate # Absent THEN m.endDate ELSE m.end_date_iso

\* C25 as claimed: None for an empty list; otherwise, if some candidate has a
\* liquidity or volume, a candidate whose liquidity (volume when it has no
\* liquidity) is maximal among the candidates that have one; else, if some
\* candidate has an end date, one with the greatest end date; else the first.
C25_SelectBest ==
    pc = "selected" =>
        IF candidates = <<>> THEN best.kind = "none"
        ELSE /\ best.kind = "market"
             /\ best.index \in DOMAIN candidates
             /\ best.market = candidates[best.index]
             /\ IF \E i \in DOMAIN candidates : HasLiquidity(candidates[i])
                THEN /\ HasLiquidity(best.market)
                     /\ \A i \in DOMAIN candidates :
                           HasLiquidity(candidates[i]) =>
                              LiquidityOrVolume(candidates[i]) <= LiquidityOrVolume(best.market)
                ELSE IF \E i \in DOMAIN candidates : HasEndDate(candidates[i])
                THEN /\ HasEndDate(best.market)
                     /\ \A i \in DOMAIN candidates :
                           HasEndDate(candidates[i]) =>
                              EndDateOf(candidates[i]) <= EndDateOf(best.market)
                ELSE best.index = 1

\* ---- backtest_advanced.simulate_market: the shape of the position ----

\* the shortfall the hypothetical unwind would buy on the entry side
EntryAdd == IF entry_side = "yes" THEN add_yes ELSE add_no

\* C26: after entry the entry side holds at least as many shares as the
\* other side, both counts are non-negative multiples of size_per_leg, and
\* the exit stage's shortfall is on the other side only: a step changes the
\* entry side's shares by its DCA fills and nothing else.
C26_EntrySideLeads ==
    /\ [](entered =>
            /\ EntryShares >= OppShares /\ OppShares >= 0
            /\ EntryShares >= cfg.size_per_leg
            /\ EntryShares % cfg.size_per_leg = 0
            /\ OppShares % cfg.size_per_leg = 0
            /\ EntryAdd = 0
            /\ Hyp.add_yes + Hyp.add_no = EntryShares - OppShares)
    /\ [][entered =>
            /\ EntryShares' = EntryShares + (dca_count' - dca_count) * cfg.size_per_leg
            /\ (unwinded' /\ ~unwinded) => OppShares' = EntryShares']_vars
C26_Witness ==
    /\ entered /\ unwinded /\ hedged /\ entry_side = "no"
    /\ add_yes > 0 /\ add_yes < shares_yes /\ add_no = 0
    /\ shares_yes = shares_no

\* C27: a result with unwinded = true has shares_yes = shares_no > 0 and
\* locked_payout equal to that count, whether the unwind came from the
\* profit-buffer rule, the time-pressure rule or the end-of-series completion.
C27_UnwoundBalanced ==
    (pc = "done" /\ result.unwinded) =>
        /\ result.shares_yes = result.shares_no /\ result.shares_yes > 0
        /\ result.locked_payout = result.shares_yes * One
        /\ result.entered
C27_Witness ==
    /\ pc = "done" /\ result.unwinded /\ result.forced
    /\ minutes_left > cfg.force_unwind_minutes /\ ts > entry_time
    /\ result.dca_count > 0 /\ result.shares_yes > 2 * cfg.size_per_leg

\* C28: with profit_buffer >= 0 an entered market's pnl is >= 0 iff it is
\* unwound; the pnl of an unwound market is the hypothetical PnL on which the
\* unwind was decided; an entered market that is not unwound has a strictly
\* negative pnl, minus its total cost and the fee on it.
C28_PnlSign ==
    /\ []((pc = "done" /\ result.entered) =>
            /\ cfg.profit_buffer >= 0
            /\ PnlGE(result.pnl, 0) <=> result.unwinded
            /\ ~result.unwinded =>
                 /\ PnlLT(result.pnl, 0) /\ result.total_cost > 0
                 /\ PnlIdentity(result.pnl, 0, result.total_cost, cfg.fee_bps))
    /\ [][(pc = "final" /\ pc' = "done") => result'.pnl = pnl]_vars
    /\ [][(pc = "loop" /\ pc' = "done" /\ result'.unwinded) =>
            (result'.pnl = Hyp.pnl /\ PnlGE(Hyp.pnl, 0))]_vars
C28_Witness ==
    /\ pc = "done" /\ result.entered /\ ~result.unwinded /\ result.hedged
    /\ cfg.fee_bps > 0 /\ result.pnl.frac = 0 /\ result.pnl.units < 0

\* C29 as claimed: a terminal position with equal non-zero share counts on
\* both legs returns unwinded = true and locked_payout = that share count.
C29_BalancedIsUnwound ==
    (pc = "done" /\ result.shares_yes = result.shares_no /\ result.shares_yes > 0) =>
        (result.unwinded /\ result.locked_payout = result.shares_yes * One)

====
